---- MODULE Spec2Model ----
(***************************************************************************)
(* Catalog store (database_manager.py) and material resolver               *)
(* (price_importer.py) of the autoexcel material catalog.                  *)
(*                                                                         *)
(* Tables are modelled as the rows they hold: customers, price_sources,    *)
(* material_prices and material_aliases are sequences whose index is the   *)
(* AUTOINCREMENT row id; materials is a function from the id (a uuid       *)
(* string) to the row.  SQL NULL and Python None are the value NULL / 0.   *)
(***************************************************************************)
EXTENDS Integers, Sequences, FiniteSets, TLC

VARIABLES
    materials,        \* materials table: id -> [name_canonical, unit, active]
    customers,        \* customers table: id -> preferred_price_source_type
    price_sources,    \* price_sources table: id -> [type, name]
    material_prices,  \* material_prices table: id -> row
    material_aliases, \* material_aliases table: id -> row
    priceCall,        \* last get_current_price call: arguments and returned row
    matchCall,        \* last _match_material call: arguments and returned row
    cleanCall,        \* _clean_material_name applied repeatedly to one string
    import_sessions,  \* import_sessions table: id -> row
    unmatched_imports,\* unmatched_imports table: id -> row
    imp,              \* the import_from_file call in progress, or the last one
    detectCall,       \* last _detect_columns call: headers and returned mapping
    vendors,          \* vendors table: id -> [name, website_url]
    scrape            \* the scraper: its _scrape_material_price call and last batch

vars == <<materials, customers, price_sources, material_prices,
          material_aliases, priceCall, matchCall, cleanCall,
          import_sessions, unmatched_imports, imp, detectCall, vendors, scrape>>

\* What the catalog, resolver and cleaning operations leave alone.
importState == <<import_sessions, unmatched_imports, imp, detectCall, vendors, scrape>>

store == <<materials, customers, price_sources, material_prices, material_aliases>>

(***************************************************************************)
(* Bounds of the model.                                                    *)
(***************************************************************************)
MaxPrices == 3
MaxTokens == 3
MaxCleanCalls == 2
MaxAliases == 2
MaxColumns == 3
MaxRows == 2
MaxConfigRetries == 2
MaxScraped == 2

\* Row ids the customers and price_sources tables hand out.
CustomerIds == {1}
SourceIds == {1, 2}

\* SQL NULL in a text column.
NULL == "<NULL>"
\* Python None as a returned row / as an integer id (falsy, like 0).
None == [id |-> 0]
NoCustomer == 0

\* Opaque material ids (uuid4 strings); the last one is never inserted.
MaterialIds == {"m1", "m2", "m3"}

\* ISO dates 'YYYY-MM-DD' as <<year, month, day>>.
Dates == {<<2024, 1, 1>>, <<2024, 2, 1>>, <<2024, 3, 1>>, <<2024, 3, 15>>}

\* SQLite compares the TEXT dates bytewise; for zero padded ISO strings that
\* is the lexicographic order of (year, month, day).
DateLeq(a, b) ==
    \/ a[1] < b[1]
    \/ a[1] = b[1] /\ a[2] < b[2]
    \/ a[1] = b[1] /\ a[2] = b[2] /\ a[3] <= b[3]

\* calculation_date = None (or any falsy value).
NoDate == <<>>

DateLess(a, b) == DateLeq(a, b) /\ a # b

\* price_sources.type values; "tender" stands for any type the ORDER BY
\* does not name.
SourceTypes == {"invoice", "website", "manual", "tender"}

\* (price, price_date) pairs handed to add_material_price.
Observations ==
    { [price |-> 100, price_date |-> <<2024, 1, 1>>],
      [price |-> 110, price_date |-> <<2024, 3, 1>>],
      [price |-> 90,  price_date |-> <<2024, 2, 1>>] }

\* customers.preferred_price_source_type values handed to add_customer.
PreferredTypes == SourceTypes \cup {NULL}

(***************************************************************************)
(* Store operations of DatabaseManager.                                    *)
(***************************************************************************)

\* add_customer: INSERT INTO customers; the new id is the next row id.
add_customer(preferred_price_source_type) ==
    /\ Len(customers) + 1 \in CustomerIds
    /\ customers' = Append(customers, preferred_price_source_type)
    /\ UNCHANGED importState /\ UNCHANGED <<materials, price_sources, material_prices, material_aliases,
                   priceCall, matchCall, cleanCall>>

\* add_material: INSERT INTO materials under a fresh uuid4; the active
\* column takes the schema default 1.
add_material(material_id, name, unit) ==
    /\ material_id \notin DOMAIN materials
    /\ materials' = [m \in DOMAIN materials \cup {material_id} |->
                        IF m = material_id
                        THEN [name_canonical |-> name, unit |-> unit, active |-> 1]
                        ELSE materials[m]]
    /\ UNCHANGED importState /\ UNCHANGED <<customers, price_sources, material_prices, material_aliases,
                   priceCall, matchCall, cleanCall>>

\* add_price_source: INSERT INTO price_sources.
add_price_source(type_, name) ==
    /\ Len(price_sources) + 1 \in SourceIds
    /\ price_sources' = Append(price_sources, [type |-> type_, name |-> name])
    /\ UNCHANGED importState /\ UNCHANGED <<materials, customers, material_prices, material_aliases,
                   priceCall, matchCall, cleanCall>>

\* The row add_material_price inserts (is_active is the literal 1).
NewPriceRow(material_id, price, price_date, source_id) ==
    [id |-> Len(material_prices) + 1, material_id |-> material_id,
     price |-> price, price_date |-> price_date, source_id |-> source_id,
     is_active |-> 1]

\* add_material_price: INSERT INTO material_prices.  connect() turns
\* foreign keys on, so the insert goes through only for an existing
\* material and an existing price source.
add_material_price(material_id, price, price_date, source_id) ==
    /\ Len(material_prices) < MaxPrices
    /\ material_id \in DOMAIN materials
    /\ source_id \in DOMAIN price_sources
    /\ material_prices' = Append(material_prices,
                                 NewPriceRow(material_id, price, price_date, source_id))
    /\ UNCHANGED importState /\ UNCHANGED <<materials, customers, price_sources, material_aliases,
                   priceCall, matchCall, cleanCall>>

\* Soft invalidation of a price observation (is_active = 0), done by an
\* operator outside the application code.
invalidate_price(price_id) ==
    /\ price_id \in DOMAIN material_prices
    /\ material_prices[price_id].is_active = 1
    /\ material_prices' = [material_prices EXCEPT ![price_id].is_active = 0]
    /\ UNCHANGED importState /\ UNCHANGED <<materials, customers, price_sources, material_aliases,
                   priceCall, matchCall, cleanCall>>

(***************************************************************************)
(* get_current_price.                                                      *)
(***************************************************************************)

\* Lines 213-219: 'invoice' unless customer_id is truthy and the customers
\* row exists, then that row's column value (NULL included).
DefaultPreferredType == "invoice"

\* Mutant: the fallback preference is 'manual'.
PreferredType_ManualDefault(customer_id) ==
    IF customer_id # NoCustomer /\ customer_id \in DOMAIN customers
    THEN customers[customer_id]
    ELSE "manual"

PreferredType(customer_id) ==
    IF customer_id # NoCustomer /\ customer_id \in DOMAIN customers
    THEN customers[customer_id]
    ELSE DefaultPreferredType

\* Mutant: WHEN 'invoice' comes first in the CASE.
TypeRank_InvoiceFirst(type, preferred_type) ==
    IF type = "invoice" THEN 1
    ELSE IF preferred_type # NULL /\ type = preferred_type THEN 2
    ELSE IF type = "website" THEN 3
    ELSE IF type = "manual" THEN 4
    ELSE 5

\* The CASE of the ORDER BY.  WHEN ? compares ps.type = preferred_type,
\* which is never true for a NULL parameter.
TypeRank(type, preferred_type) ==
    IF preferred_type # NULL /\ type = preferred_type THEN 1
    ELSE IF type = "invoice" THEN 2
    ELSE IF type = "website" THEN 3
    ELSE IF type = "manual" THEN 4
    ELSE 5

\* Mutant: the WHERE lacks mp.price_date <= ?.
PriceCandidates_NoDateFilter(material_id, calculation_date) ==
    { i \in DOMAIN material_prices :
        /\ material_prices[i].source_id \in DOMAIN price_sources
        /\ material_prices[i].material_id = material_id
        /\ material_prices[i].is_active = 1 }

\* The rows of material_prices JOIN price_sources that pass the WHERE.
PriceCandidates(material_id, calculation_date) ==
    { i \in DOMAIN material_prices :
        /\ material_prices[i].source_id \in DOMAIN price_sources
        /\ material_prices[i].material_id = material_id
        /\ DateLeq(material_prices[i].price_date, calculation_date)
        /\ material_prices[i].is_active = 1 }

\* Mutant: ORDER BY ... mp.price_date ASC.
PriceOrderLeq_DateAscending(i, j, preferred_type) ==
    LET ri == TypeRank(price_sources[material_prices[i].source_id].type, preferred_type)
        rj == TypeRank(price_sources[material_prices[j].source_id].type, preferred_type)
    IN \/ ri < rj
       \/ ri = rj /\ DateLeq(material_prices[i].price_date, material_prices[j].price_date)

\* Row i sorts before or with row j under the ORDER BY.
PriceOrderLeq(i, j, preferred_type) ==
    LET ri == TypeRank(price_sources[material_prices[i].source_id].type, preferred_type)
        rj == TypeRank(price_sources[material_prices[j].source_id].type, preferred_type)
    IN \/ ri < rj
       \/ ri = rj /\ DateLeq(material_prices[j].price_date, material_prices[i].price_date)

\* The joined row the query yields for material_prices row i.
JoinedPriceRow(i) ==
    [id |-> i,
     material_id |-> material_prices[i].material_id,
     price |-> material_prices[i].price,
     price_date |-> material_prices[i].price_date,
     source_id |-> material_prices[i].source_id,
     is_active |-> material_prices[i].is_active,
     type |-> price_sources[material_prices[i].source_id].type]

\* Mutant: the query keeps only the rows of the preferred type.
get_current_price_PreferredOnly(material_id, calculation_date, customer_id) ==
    LET preferred_type == PreferredType(customer_id)
        cand == { i \in PriceCandidates(material_id, calculation_date) :
                    price_sources[material_prices[i].source_id].type = preferred_type }
        first == { i \in cand : \A j \in cand : PriceOrderLeq(i, j, preferred_type) }
    IN IF cand = {} THEN {None} ELSE { JoinedPriceRow(i) : i \in first }

\* The rows LIMIT 1 may yield: any first row of the ordering (SQL leaves
\* the order of rows with equal keys open), or None for no row.
get_current_price(material_id, calculation_date, customer_id) ==
    LET preferred_type == PreferredType(customer_id)
        cand == PriceCandidates(material_id, calculation_date)
        first == { i \in cand : \A j \in cand : PriceOrderLeq(i, j, preferred_type) }
    IN IF cand = {} THEN {None} ELSE { JoinedPriceRow(i) : i \in first }

\* One call of get_current_price.  A missing calculation_date is replaced by
\* date.today(), which is any date.
GetCurrentPrice(material_id, calculation_date, customer_id, today) ==
    LET as_of == IF calculation_date = NoDate THEN today ELSE calculation_date
    IN /\ \E r \in get_current_price(material_id, as_of, customer_id) :
            priceCall' = [called |-> TRUE, material_id |-> material_id,
                          calculation_date |-> as_of,
                          customer_id |-> customer_id, result |-> r]
       /\ UNCHANGED importState /\ UNCHANGED <<store, matchCall, cleanCall>>

\* No call made yet.
NoCall == [called |-> FALSE]

(***************************************************************************)
(* _clean_material_name.  A name is the sequence of its characters.  The   *)
(* Cyrillic letters are written in Latin transliteration, one element per  *)
(* letter: "sh" is the letter sha, "^2" and "^3" are the superscript       *)
(* digits, "s"/"S" and "m"/"M" are the small and capital letters es, em.   *)
(***************************************************************************)

\* Characters matched by \s.
Whitespace == {" ", "\t"}

\* str.lower() on one character.
LowerChar(ch) ==
    CASE ch = "S" -> "s"
      [] ch = "M" -> "m"
      [] ch = "K" -> "k"
      [] ch = "G" -> "g"
      [] ch = "T" -> "t"
      [] ch = "E" -> "e"
      [] ch = "A" -> "a"
      [] ch = "Ts" -> "ts"
      [] ch = "L:N" -> "L:n"
      [] ch = "L:I" -> "L:i"
      [] OTHER -> ch

Lower(s) == [k \in 1..Len(s) |-> LowerChar(s[k])]

RECURSIVE LStrip(_)
LStrip(s) ==
    IF s # <<>> /\ Head(s) \in Whitespace THEN LStrip(Tail(s)) ELSE s

RECURSIVE RStrip(_)
RStrip(s) ==
    IF s # <<>> /\ s[Len(s)] \in Whitespace THEN RStrip(SubSeq(s, 1, Len(s) - 1)) ELSE s

\* str.strip().
Strip(s) == RStrip(LStrip(s))

\* re.sub(r'\s+', ' ', s): every run of whitespace becomes one space.
RECURSIVE CollapseSpaces(_)
CollapseSpaces(s) ==
    IF s = <<>> THEN <<>>
    ELSE IF Head(s) \in Whitespace
         THEN <<" ">> \o CollapseSpaces(LStrip(s))
         ELSE <<Head(s)>> \o CollapseSpaces(Tail(s))

\* tovar | material | produkt (goods, material, product).
PrefixWords ==
    { <<"t", "o", "v", "a", "r">>,
      <<"m", "a", "t", "e", "r", "i", "a", "l">>,
      <<"p", "r", "o", "d", "u", "k", "t">> }

\* upakovka | shtuka | kg | m | m^2 | m^3 (package, piece, kg, m, m2, m3).
SuffixWords ==
    { <<"u", "p", "a", "k", "o", "v", "k", "a">>,
      <<"sh", "t", "u", "k", "a">>,
      <<"k", "g">>,
      <<"m">>,
      <<"m", "^2">>,
      <<"m", "^3">> }

StartsWith(s, w) == Len(s) >= Len(w) /\ SubSeq(s, 1, Len(w)) = w

\* re.sub(r'^(tovar|material|produkt)\s*', '', s): one match, at the start.
RemovePrefix(s) ==
    IF \E w \in PrefixWords : StartsWith(s, w)
    THEN LET w == CHOOSE x \in PrefixWords : StartsWith(s, x)
         IN LStrip(SubSeq(s, Len(w) + 1, Len(s)))
    ELSE s

\* t is whitespace followed by one of the suffix words, and nothing else.
IsSuffixMatch(t) ==
    \E w \in SuffixWords :
       /\ Len(t) >= Len(w)
       /\ SubSeq(t, Len(t) - Len(w) + 1, Len(t)) = w
       /\ \A k \in 1..(Len(t) - Len(w)) : t[k] \in Whitespace

\* re.sub(r'\s*(upakovka|shtuka|kg|m|m^2|m^3)$', '', s): the leftmost match
\* that reaches the end of the string is removed.
RemoveSuffix(s) ==
    LET starts == { p \in 1..Len(s) : IsSuffixMatch(SubSeq(s, p, Len(s))) }
    IN IF starts = {} THEN s
       ELSE SubSeq(s, 1, (CHOOSE p \in starts : \A q \in starts : p <= q) - 1)

_clean_material_name(name) ==
    IF name = <<>> THEN <<>>
    ELSE RemoveSuffix(RemovePrefix(CollapseSpaces(Lower(Strip(name)))))

\* The empty database initialize_database leaves behind.
InitStore ==
    /\ materials = <<>>
    /\ customers = <<>>
    /\ price_sources = <<>>
    /\ material_prices = <<>>
    /\ material_aliases = <<>>

\* No import has run: both import tables are empty, no call is in progress.
NoImport ==
    [pc |-> "idle", source_file |-> "", columns |-> <<>>, rows |-> <<>>,
     customer_id |-> NoCustomer, session_id |-> 0, source_id |-> 0,
     column_mapping |-> <<>>, idx |-> 0, processed |-> 0, errors |-> 0,
     unmatched |-> <<>>, raised |-> {}, queries |-> 0,
     outcome |-> "none", log |-> <<>>]

\* None as a price (nothing to convert, nothing found), in the records
\* where a price is a number.
NoPrice == -1

\* No scraper call has been made.
NoBatch ==
    [outcome |-> "none", source_id |-> 0, vendor_id |-> 0, total_materials |-> 0,
     successful |-> 0, failed |-> 0, errors |-> <<>>]

NoScrape ==
    [pc |-> "idle", config |-> <<>>, attempt |-> 0, requests |-> 0, log |-> <<>>,
     result |-> NoPrice, batch |-> NoBatch]

InitImport ==
    /\ import_sessions = <<>>
    /\ unmatched_imports = <<>>
    /\ imp = NoImport
    /\ detectCall = NoCall
    /\ vendors = <<>>
    /\ scrape = NoScrape

Init ==
    /\ InitStore
    /\ InitImport
    /\ priceCall = NoCall
    /\ matchCall = NoCall
    /\ cleanCall = NoCall

\* as-of dates of the calls: before every observation, on the date of one,
\* after all of them.
QueryDates == {<<2023, 12, 31>>, <<2024, 2, 1>>, <<2024, 3, 15>>}

\* What date.today() returns when the call passes no date.
Todays == {<<2024, 3, 2>>}

\* customer_id arguments: None, the known ids, and an id no row has.
UnknownCustomerIds == {9}
CustomerArgs == {NoCustomer} \cup CustomerIds \cup UnknownCustomerIds

\* No call under check has been recorded yet: a run fills the store and
\* ends with the call it checks.
Filling == ~priceCall.called /\ ~matchCall.called

(***************************************************************************)
(* SpecPrice: the ordering of get_current_price, over the prices of one    *)
(* material recorded under price sources of every type, for customers of   *)
(* every preference.                                                       *)
(***************************************************************************)
NextPrice ==
    \/ Filling /\ add_material("m1", <<"s">>, "kg")
    \/ Filling /\ \E p \in PreferredTypes : add_customer(p)
    \/ Filling /\ \E t \in SourceTypes : add_price_source(t, "Manual entry")
    \/ Filling /\ \E o \in Observations, s \in SourceIds :
          add_material_price("m1", o.price, o.price_date, s)
    \/ Filling /\ \E d \in QueryDates \ {<<2023, 12, 31>>}, c \in CustomerArgs :
          GetCurrentPrice("m1", d, c, d)
    \/ Filling /\ \E today \in Todays, c \in CustomerArgs :
          GetCurrentPrice("m1", NoDate, c, today)

SpecPrice == Init /\ [][NextPrice]_vars

(***************************************************************************)
(* SpecFilter: the WHERE clause of get_current_price, over the prices of   *)
(* two materials, some of them invalidated, and calls for known and        *)
(* unknown materials.                                                      *)
(***************************************************************************)
NextFilter ==
    \/ Filling /\ \E m \in {"m1", "m2"} : add_material(m, <<"s">>, "kg")
    \/ Filling /\ add_customer("manual")
    \/ Filling /\ add_price_source("invoice", "Manual entry")
    \/ Filling /\ \E m \in {"m1", "m2"}, o \in Observations :
          add_material_price(m, o.price, o.price_date, 1)
    \/ Filling /\ \E i \in 1..MaxPrices : invalidate_price(i)
    \/ Filling /\ \E m \in MaterialIds, d \in QueryDates, c \in CustomerArgs :
          GetCurrentPrice(m, d, c, d)

SpecFilter == Init /\ [][NextFilter]_vars

(***************************************************************************)
(* Material lookup: get_material_by_name, find_material_by_alias and       *)
(* PriceImporter._match_material.                                          *)
(***************************************************************************)

\* None where a materials row is expected.
NoMaterial == [id |-> NULL]
\* unit = None or '' (both falsy).
NoUnit == ""
NoArticle == ""

\* SELECT * FROM materials for one row.
MaterialRow(m) ==
    [id |-> m, name_canonical |-> materials[m].name_canonical,
     unit |-> materials[m].unit, active |-> materials[m].active]

\* The rows fetchone() may yield, or None when the SELECT is empty.
get_material_by_name(name, unit) ==
    LET hit == { m \in DOMAIN materials :
                   /\ materials[m].name_canonical = name
                   /\ materials[m].unit = unit
                   /\ materials[m].active = 1 }
    IN IF hit = {} THEN {NoMaterial} ELSE { MaterialRow(m) : m \in hit }

\* SELECT m.*, ma.alias_name for alias row a.
AliasJoinRow(a) ==
    [id |-> material_aliases[a].material_id,
     name_canonical |-> materials[material_aliases[a].material_id].name_canonical,
     unit |-> materials[material_aliases[a].material_id].unit,
     active |-> materials[material_aliases[a].material_id].active,
     alias_name |-> material_aliases[a].alias_name]

\* Mutant: the customer filter is dropped when a customer is given.
find_material_by_alias_Unscoped(alias, customer_id) ==
    { AliasJoinRow(a) : a \in
        { i \in DOMAIN material_aliases :
            /\ material_aliases[i].material_id \in DOMAIN materials
            /\ material_aliases[i].alias_name = alias
            /\ materials[material_aliases[i].material_id].active = 1 } }

\* The rows of the result list.  With a truthy customer_id the WHERE keeps
\* the customer's and the NULL-customer aliases; without one it keeps the
\* aliases of every customer.
find_material_by_alias(alias, customer_id) ==
    { AliasJoinRow(a) : a \in
        { i \in DOMAIN material_aliases :
            /\ material_aliases[i].material_id \in DOMAIN materials
            /\ material_aliases[i].alias_name = alias
            /\ \/ customer_id = NoCustomer
               \/ material_aliases[i].customer_id = customer_id
               \/ material_aliases[i].customer_id = NoCustomer
            /\ materials[material_aliases[i].material_id].active = 1 } }

\* Mutant: the aliases are tried before the exact (name, unit) lookup.
_match_material_AliasFirst(name, unit, article, customer_id) ==
    IF name = <<>> THEN {NoMaterial}
    ELSE LET clean_name == _clean_material_name(name)
             exact == IF unit # NoUnit
                      THEN get_material_by_name(clean_name, unit)
                      ELSE {NoMaterial}
             aliases == find_material_by_alias(clean_name, customer_id)
         IN IF aliases # {} THEN aliases
            ELSE exact

\* The rows _match_material may return (aliases[0] is any row of the list:
\* the SELECT has no ORDER BY), or None.
_match_material(name, unit, article, customer_id) ==
    IF name = <<>> THEN {NoMaterial}
    ELSE LET clean_name == _clean_material_name(name)
             exact == IF unit # NoUnit
                      THEN get_material_by_name(clean_name, unit)
                      ELSE {NoMaterial}
             aliases == find_material_by_alias(clean_name, customer_id)
         IN IF exact # {NoMaterial} THEN exact
            ELSE IF aliases # {} THEN aliases
            ELSE {NoMaterial}

\* One call of _match_material.
MatchMaterial(name, unit, article, customer_id) ==
    /\ \E r \in _match_material(name, unit, article, customer_id) :
          matchCall' = [called |-> TRUE, name |-> name, unit |-> unit,
                        customer_id |-> customer_id, result |-> r]
    /\ UNCHANGED importState /\ UNCHANGED <<store, priceCall, cleanCall>>

\* Registration of an alias, global (customer_id NULL) or scoped to a
\* customer; an alias already registered is not inserted again.
add_alias_if_absent(material_id, alias, customer_id) ==
    /\ Len(material_aliases) < MaxAliases
    /\ material_id \in DOMAIN materials
    /\ ~\E i \in DOMAIN material_aliases :
           /\ material_aliases[i].material_id = material_id
           /\ material_aliases[i].alias_name = alias
           /\ material_aliases[i].customer_id = customer_id
    /\ material_aliases' = Append(material_aliases,
                                  [material_id |-> material_id, alias_name |-> alias,
                                   customer_id |-> customer_id])
    /\ UNCHANGED importState /\ UNCHANGED <<materials, customers, price_sources, material_prices,
                   priceCall, matchCall, cleanCall>>

(***************************************************************************)
(* migrate_from_json.  The tables are threaded through the loops as a      *)
(* record t.                                                               *)
(***************************************************************************)

\* price_entry.get('source_type', 'manual'), .get('source_name', 'Migration').
EntrySourceType(price_entry) ==
    IF price_entry.source_type = NULL THEN "manual" ELSE price_entry.source_type

EntrySourceName(price_entry) ==
    IF price_entry.source_name = NULL THEN "Migration" ELSE price_entry.source_name

\* _get_or_create_price_source: the tables after the call and the id it
\* returns, for every row fetchone() may yield.
GetOrCreatePriceSource(t, price_entry) ==
    LET found == { i \in DOMAIN t.price_sources :
                     /\ t.price_sources[i].type = EntrySourceType(price_entry)
                     /\ t.price_sources[i].name = EntrySourceName(price_entry) }
    IN IF found # {}
       THEN { [t |-> t, source_id |-> i] : i \in found }
       ELSE { [t |-> [t EXCEPT !.price_sources =
                         Append(@, [type |-> EntrySourceType(price_entry),
                                    name |-> EntrySourceName(price_entry)])],
               source_id |-> Len(t.price_sources) + 1] }

\* The loop over item['price_history'].
RECURSIVE MigratePrices(_, _, _)
MigratePrices(t, material_id, price_history) ==
    IF price_history = <<>> THEN {t}
    ELSE UNION { MigratePrices(
                    [g.t EXCEPT !.material_prices =
                        Append(@, [id |-> Len(@) + 1, material_id |-> material_id,
                                   price |-> Head(price_history).price,
                                   price_date |-> Head(price_history).price_date,
                                   source_id |-> g.source_id, is_active |-> 1])],
                    material_id, Tail(price_history))
                 : g \in GetOrCreatePriceSource(t, Head(price_history)) }

\* The loop over item['aliases']: INSERT OR IGNORE of a global alias.
RECURSIVE MigrateAliases(_, _, _)
MigrateAliases(t, material_id, aliases) ==
    IF aliases = <<>> THEN t
    ELSE LET present == \E i \in DOMAIN t.material_aliases :
                           /\ t.material_aliases[i].material_id = material_id
                           /\ t.material_aliases[i].alias_name = Head(aliases)
                           /\ t.material_aliases[i].customer_id = NoCustomer
             next == IF present THEN t
                     ELSE [t EXCEPT !.material_aliases =
                             Append(@, [material_id |-> material_id,
                                        alias_name |-> Head(aliases),
                                        customer_id |-> NoCustomer])]
         IN MigrateAliases(next, material_id, Tail(aliases))

\* The ON DELETE action of the foreign key material_prices.material_id.
\* REPLACE deletes the materials row it replaces, and this action decides
\* what becomes of the prices that refer to it.
PricesOnMaterialDelete == "NO ACTION"

\* INSERT OR REPLACE INTO materials: the row with the item's id is replaced.
ReplacedMaterial(t, item) ==
    [t EXCEPT !.materials =
        [m \in DOMAIN t.materials \cup {item.id} |->
            IF m = item.id
            THEN [name_canonical |-> item.name, unit |-> item.unit,
                  active |-> item.active]
            ELSE t.materials[m]]]

\* ON DELETE CASCADE: the prices of the deleted materials row go with it.
WithoutPricesOf(t, material_id) ==
    [t EXCEPT !.material_prices =
        SelectSeq(@, LAMBDA row : row.material_id # material_id)]

\* Mutant: the prices of a replaced material are deleted with its old row.
MigrateMaterial_CascadePrices(t, item) ==
    IF item.id \in DOMAIN t.materials
    THEN WithoutPricesOf(ReplacedMaterial(t, item), item.id)
    ELSE ReplacedMaterial(t, item)

\* Lines 44-56: the material of the item is inserted, or put in the place
\* of the row that has its id.
MigrateMaterial(t, item) ==
    IF item.id \in DOMAIN t.materials /\ PricesOnMaterialDelete = "CASCADE"
    THEN WithoutPricesOf(ReplacedMaterial(t, item), item.id)
    ELSE ReplacedMaterial(t, item)

\* The loop over json_data.
RECURSIVE MigrateItems(_, _)
MigrateItems(t, json_data) ==
    IF json_data = <<>> THEN {t}
    ELSE LET item == Head(json_data)
         IN UNION { MigrateItems(MigrateAliases(p, item.id, item.aliases), Tail(json_data))
                     : p \in MigratePrices(MigrateMaterial(t, item), item.id,
                                           item.price_history) }

migrate_from_json(json_data) ==
    \E t \in MigrateItems([materials |-> materials, price_sources |-> price_sources,
                           material_prices |-> material_prices,
                           material_aliases |-> material_aliases], json_data) :
       /\ Len(t.price_sources) \in SourceIds \cup {0}
       /\ Len(t.material_prices) <= MaxPrices
       /\ Len(t.material_aliases) <= MaxAliases
       /\ materials' = t.materials
       /\ price_sources' = t.price_sources
       /\ material_prices' = t.material_prices
       /\ material_aliases' = t.material_aliases
       /\ UNCHANGED importState /\ UNCHANGED <<customers, priceCall, matchCall, cleanCall>>

(***************************************************************************)
(* SpecMatch: _match_material over a catalog filled by add_material,       *)
(* migrate_from_json and alias registration.                               *)
(***************************************************************************)

\* "s", "S": a canonical name in small letters and with a capital.
CanonicalNames == { <<"s">>, <<"S">> }
AliasNames == { <<"s">>, <<"S">> }

\* Raw names of the rows looked up: missing, "s", "S", "tovar s kg".
RawNames ==
    { <<>>, <<"s">>, <<"S">>,
      <<"t", "o", "v", "a", "r", " ", "s", " ", "k", "g">> }

\* Customers of the lookups and of the scoped aliases.
MatchCustomers == {1, 2}

\* materials_catalog.json: one item, with or without an alias.
Catalogs ==
    { << [id |-> m, name |-> n, unit |-> "kg", active |-> a,
          price_history |-> <<>>, aliases |-> al] >> :
        m \in {"m1", "m2"}, n \in CanonicalNames, a \in {0, 1},
        al \in {<<>>} \cup { <<x>> : x \in AliasNames } }

NextMatch ==
    \/ Filling /\ \E m \in {"m1", "m2"}, n \in CanonicalNames : add_material(m, n, "kg")
    \/ Filling /\ \E json_data \in Catalogs : migrate_from_json(json_data)
    \/ Filling /\ \E m \in {"m1", "m2"}, x \in AliasNames,
                     c \in {NoCustomer} \cup MatchCustomers :
          add_alias_if_absent(m, x, c)
    \/ Filling /\ \E n \in RawNames, u \in {NoUnit, "kg", "m"},
                     c \in {NoCustomer} \cup MatchCustomers :
          MatchMaterial(n, u, NoArticle, c)

SpecMatch == Init /\ [][NextMatch]_vars

(***************************************************************************)
(* SpecClean: _clean_material_name applied to a name, and again to its     *)
(* own results.  The names are the concatenations of up to MaxTokens of    *)
(* the tokens below.                                                       *)
(***************************************************************************)
NameTokens ==
    { <<" ">>, <<"s">>, <<"S">>, <<"m">>, <<"^2">>, <<"k", "g">>,
      <<"t", "o", "v", "a", "r">> }

RECURSIVE NamesOf(_)
NamesOf(n) ==
    IF n = 0 THEN {<<>>}
    ELSE LET shorter == NamesOf(n - 1)
         IN shorter \cup { t \o x : t \in NameTokens, x \in shorter }

Names == NamesOf(MaxTokens)

InitClean ==
    /\ InitStore
    /\ InitImport
    /\ priceCall = NoCall
    /\ matchCall = NoCall
    /\ \E x \in Names : cleanCall = [name |-> x, calls |-> 0, arg |-> x, result |-> x]

\* One more call: of the name at first, then of the previous result.
CleanMaterialName ==
    /\ cleanCall.calls < MaxCleanCalls
    /\ cleanCall' = [name |-> cleanCall.name,
                     calls |-> cleanCall.calls + 1,
                     arg |-> cleanCall.result,
                     result |-> _clean_material_name(cleanCall.result)]
    /\ UNCHANGED importState /\ UNCHANGED <<store, priceCall, matchCall>>

NextClean == CleanMaterialName

SpecClean == InitClean /\ [][NextClean]_vars

(***************************************************************************)
(* _detect_columns.  A header is the sequence of its characters.  Cyrillic *)
(* letters are transliterated as above ("ts" is tse, "ya" is ya, "'" is    *)
(* the soft sign); a Latin letter x is written "L:x", so that the Latin    *)
(* and the Cyrillic patterns stay different strings.                       *)
(***************************************************************************)
Latin(w) == [k \in 1..Len(w) |-> "L:" \o w[k]]

\* re.search(w, s) for a pattern w without metacharacters.
Contains(s, w) ==
    \E p \in 1..(Len(s) - Len(w) + 1) : SubSeq(s, p, p + Len(w) - 1) = w

\* naimenovan | material | tovar | produkt | name | material | product | item
name_patterns ==
    { <<"n", "a", "i", "m", "e", "n", "o", "v", "a", "n">>,
      <<"m", "a", "t", "e", "r", "i", "a", "l">>,
      <<"t", "o", "v", "a", "r">>,
      <<"p", "r", "o", "d", "u", "k", "t">>,
      Latin(<<"n", "a", "m", "e">>),
      Latin(<<"m", "a", "t", "e", "r", "i", "a", "l">>),
      Latin(<<"p", "r", "o", "d", "u", "c", "t">>),
      Latin(<<"i", "t", "e", "m">>) }

\* tsena | stoimost' | price | cost
price_patterns ==
    { <<"ts", "e", "n", "a">>,
      <<"s", "t", "o", "i", "m", "o", "s", "t", "'">>,
      Latin(<<"p", "r", "i", "c", "e">>),
      Latin(<<"c", "o", "s", "t">>) }

\* re.search(r'ed\.?\s*izm', s): "ed", an optional dot, any whitespace, "izm".
MatchesEdIzm(s) ==
    \E p \in 1..Len(s), q \in 1..Len(s) :
       /\ q >= p + 2
       /\ q + 2 <= Len(s)
       /\ SubSeq(s, p, p + 1) = <<"e", "d">>
       /\ SubSeq(s, q, q + 2) = <<"i", "z", "m">>
       /\ LET gap == SubSeq(s, p + 2, q - 1)
              blanks == IF gap # <<>> /\ Head(gap) = "." THEN Tail(gap) ELSE gap
          IN \A k \in 1..Len(blanks) : blanks[k] \in Whitespace

\* edinitsa | unit, besides the expression above.
unit_patterns ==
    { <<"e", "d", "i", "n", "i", "ts", "a">>,
      Latin(<<"u", "n", "i", "t">>) }

\* artikul | kod | article | code | sku
article_patterns ==
    { <<"a", "r", "t", "i", "k", "u", "l">>,
      <<"k", "o", "d">>,
      Latin(<<"a", "r", "t", "i", "c", "l", "e">>),
      Latin(<<"c", "o", "d", "e">>),
      Latin(<<"s", "k", "u">>) }

MatchesAny(col_lower, patterns) == \E w \in patterns : Contains(col_lower, w)

\* The if / elif chain of the loop body: the field a header is taken for,
\* NULL when no pattern matches.
FieldOf(col) ==
    LET col_lower == Strip(Lower(col))
    IN IF MatchesAny(col_lower, name_patterns) THEN "name"
       ELSE IF MatchesAny(col_lower, price_patterns) THEN "price"
       ELSE IF MatchesEdIzm(col_lower) \/ MatchesAny(col_lower, unit_patterns) THEN "unit"
       ELSE IF MatchesAny(col_lower, article_patterns) THEN "article"
       ELSE NULL

\* mapping[field] = col.
SetField(mapping, field, col) ==
    [f \in DOMAIN mapping \cup {field} |-> IF f = field THEN col ELSE mapping[f]]

\* The loop over the headers from the k-th one on.
RECURSIVE DetectFrom(_, _, _)
DetectFrom(columns, k, mapping) ==
    IF k > Len(columns) THEN mapping
    ELSE DetectFrom(columns, k + 1,
                    IF FieldOf(columns[k]) = NULL THEN mapping
                    ELSE SetField(mapping, FieldOf(columns[k]), columns[k]))

_detect_columns(columns) == DetectFrom(columns, 1, <<>>)

\* Headers of the files: Material | Edinitsa izmereniya |
\* Tsena materiala, za edinitsu | Tsena | Ed. izm | Artikul | Kol-vo |
\* " Name " | Item.
Headers ==
    { <<"M", "a", "t", "e", "r", "i", "a", "l">>,
      <<"E", "d", "i", "n", "i", "ts", "a", " ",
        "i", "z", "m", "e", "r", "e", "n", "i", "ya">>,
      <<"Ts", "e", "n", "a", " ", "m", "a", "t", "e", "r", "i", "a", "l", "a", ",", " ",
        "z", "a", " ", "e", "d", "i", "n", "i", "ts", "u">>,
      <<"Ts", "e", "n", "a">>,
      <<"E", "d", ".", " ", "i", "z", "m">>,
      <<"A", "r", "t", "i", "k", "u", "l">>,
      <<"K", "o", "l", "-", "v", "o">>,
      <<" ", "L:N", "L:a", "L:m", "L:e", " ">>,
      <<"L:I", "L:t", "L:e", "L:m">> }

\* df.columns: up to n distinct headers.
RECURSIVE ColumnsOf(_)
ColumnsOf(n) ==
    IF n = 0 THEN {<<>>}
    ELSE LET shorter == ColumnsOf(n - 1)
         IN shorter \cup { Append(c, h) : c \in shorter, h \in Headers }

HeaderRows ==
    { c \in ColumnsOf(MaxColumns) : \A i, j \in 1..Len(c) : i # j => c[i] # c[j] }

InitDetect ==
    /\ InitStore
    /\ import_sessions = <<>>
    /\ unmatched_imports = <<>>
    /\ imp = NoImport
    /\ vendors = <<>>
    /\ scrape = NoScrape
    /\ priceCall = NoCall
    /\ matchCall = NoCall
    /\ cleanCall = NoCall
    /\ \E c \in HeaderRows : detectCall = [called |-> FALSE, columns |-> c, mapping |-> <<>>]

DetectColumns ==
    /\ ~detectCall.called
    /\ detectCall' = [called |-> TRUE, columns |-> detectCall.columns,
                      mapping |-> _detect_columns(detectCall.columns)]
    /\ UNCHANGED <<store, priceCall, matchCall, cleanCall,
                   import_sessions, unmatched_imports, imp, vendors, scrape>>

NextDetect == DetectColumns

SpecDetect == InitDetect /\ [][NextDetect]_vars

(***************************************************************************)
(* Claims about get_current_price.  The ordering and the candidate set are *)
(* restated here from the specification's words, apart from the            *)
(* definitions that model the query.                                       *)
(***************************************************************************)

\* Active prices of material m dated on or before d.
ClaimCandidates(m, d) ==
    { i \in DOMAIN material_prices :
        /\ material_prices[i].material_id = m
        /\ material_prices[i].is_active = 1
        /\ DateLeq(material_prices[i].price_date, d) }

ClaimType(i) == price_sources[material_prices[i].source_id].type

\* preferred 1, invoice 2, website 3, manual 4, any other 5.
ClaimRank(type, preferred) ==
    CASE type = preferred -> 1
      [] type # preferred /\ type = "invoice" -> 2
      [] type # preferred /\ type = "website" -> 3
      [] type # preferred /\ type = "manual" -> 4
      [] OTHER -> 5

\* The customer's recorded type, invoice when there is no customer, the
\* customer is unknown or has none recorded.
ClaimPreferred(c) ==
    IF c \in DOMAIN customers /\ customers[c] # NULL THEN customers[c] ELSE "invoice"

\* Candidate j has a strictly better key than candidate i.
ClaimBetter(j, i, preferred) ==
    LET rj == ClaimRank(ClaimType(j), preferred)
        ri == ClaimRank(ClaimType(i), preferred)
    IN \/ rj < ri
       \/ rj = ri /\ DateLess(material_prices[i].price_date, material_prices[j].price_date)

PriceReturned == priceCall.called /\ priceCall.result.id # 0

\* (type, date, price) of the active prices of material m.
PriceTriples(m) ==
    { <<ClaimType(i), material_prices[i].price_date, material_prices[i].price>> :
        i \in { k \in DOMAIN material_prices :
                  material_prices[k].material_id = m /\ material_prices[k].is_active = 1 } }

ExampleTriples ==
    { <<"invoice", <<2024, 1, 1>>, 100>>,
      <<"invoice", <<2024, 3, 1>>, 110>>,
      <<"manual",  <<2024, 2, 1>>, 90>> }

ExampleCall ==
    /\ priceCall.called
    /\ PriceTriples(priceCall.material_id) = ExampleTriples
    /\ priceCall.calculation_date = <<2024, 3, 15>>

\* C1: a returned price has no candidate with a strictly better (rank,
\* date descending) key; with no customer, the prices {(invoice, 2024-01-01,
\* 100), (invoice, 2024-03-01, 110), (manual, 2024-02-01, 90)} and as-of
\* 2024-03-15 yield 110.
C1_BestKey ==
    /\ PriceReturned =>
         \A j \in ClaimCandidates(priceCall.material_id, priceCall.calculation_date) :
            ~ClaimBetter(j, priceCall.result.id, ClaimPreferred(priceCall.customer_id))
    /\ (ExampleCall /\ priceCall.customer_id = NoCustomer) => priceCall.result.price = 110

C1_Witness ==
    /\ ExampleCall
    /\ priceCall.customer_id = NoCustomer
    /\ priceCall.result.price = 110

\* C2: when the customer's preferred type T has a candidate, the returned
\* price is of type T, whatever the dates of the other candidates.
C2_PreferredWins ==
    (/\ priceCall.called
     /\ priceCall.customer_id \in DOMAIN customers
     /\ \E j \in ClaimCandidates(priceCall.material_id, priceCall.calculation_date) :
           ClaimType(j) = customers[priceCall.customer_id])
    => /\ priceCall.result.id # 0
       /\ priceCall.result.type = customers[priceCall.customer_id]

\* The example with a customer preferring manual: 90 is returned although
\* the invoice price of 2024-03-01 is later.
C2_Witness ==
    /\ ExampleCall
    /\ priceCall.customer_id \in DOMAIN customers
    /\ customers[priceCall.customer_id] = "manual"
    /\ priceCall.result.price = 90
    /\ priceCall.result.type = "manual"

\* C3: the returned price is a row of the requested material, active, and
\* dated on or before the as-of date.
C3_ResultIsCandidate ==
    PriceReturned =>
       /\ priceCall.result.id \in DOMAIN material_prices
       /\ LET row == material_prices[priceCall.result.id]
          IN /\ row.material_id = priceCall.material_id
             /\ row.is_active = 1
             /\ DateLeq(row.price_date, priceCall.calculation_date)
             /\ priceCall.result.material_id = row.material_id
             /\ priceCall.result.price_date = row.price_date
             /\ priceCall.result.price = row.price
             /\ priceCall.result.is_active = 1

\* A price is returned while the material also has a later-dated active
\* price and an invalidated price on or before the as-of date, and another
\* material has a price.
C3_Witness ==
    /\ PriceReturned
    /\ \E i \in DOMAIN material_prices :
          /\ material_prices[i].material_id = priceCall.material_id
          /\ material_prices[i].is_active = 1
          /\ DateLess(priceCall.calculation_date, material_prices[i].price_date)
    /\ \E i \in DOMAIN material_prices :
          /\ material_prices[i].material_id = priceCall.material_id
          /\ material_prices[i].is_active = 0
          /\ DateLess(priceCall.result.price_date, material_prices[i].price_date)
          /\ DateLeq(material_prices[i].price_date, priceCall.calculation_date)

\* C4: None is returned exactly when the candidate set is empty, and for a
\* material_id the store does not know.
C4_NoneIffNoCandidate ==
    priceCall.called =>
       /\ (priceCall.result.id = 0) <=>
             (ClaimCandidates(priceCall.material_id, priceCall.calculation_date) = {})
       /\ priceCall.material_id \notin DOMAIN materials => priceCall.result.id = 0

\* A price is returned to a customer whose preferred type has no candidate.
C4_Witness ==
    /\ PriceReturned
    /\ priceCall.customer_id \in DOMAIN customers
    /\ customers[priceCall.customer_id] = "manual"
    /\ \A j \in ClaimCandidates(priceCall.material_id, priceCall.calculation_date) :
          ClaimType(j) # "manual"

\* The call names a customer the store does not know, or one with no
\* preferred type recorded.
NoPreferenceCall ==
    /\ priceCall.called
    /\ priceCall.customer_id # NoCustomer
    /\ \/ priceCall.customer_id \notin DOMAIN customers
       \/ customers[priceCall.customer_id] = NULL

\* C5: for an unknown customer or one with no preferred type the call
\* returns what the call with no customer returns: the result for
\* preferred_type = invoice.
C5_DefaultPreference ==
    NoPreferenceCall =>
       /\ priceCall.result \in
             get_current_price(priceCall.material_id, priceCall.calculation_date, NoCustomer)
       /\ (priceCall.result.id = 0) <=>
             (ClaimCandidates(priceCall.material_id, priceCall.calculation_date) = {})
       /\ priceCall.result.id # 0 =>
             \A j \in ClaimCandidates(priceCall.material_id, priceCall.calculation_date) :
                ~ClaimBetter(j, priceCall.result.id, "invoice")

\* A customer with no preferred type gets the older invoice price although
\* a manual price is later.
C5_Witness ==
    /\ NoPreferenceCall
    /\ priceCall.customer_id \in DOMAIN customers
    /\ priceCall.result.id # 0
    /\ priceCall.result.type = "invoice"
    /\ \E j \in ClaimCandidates(priceCall.material_id, priceCall.calculation_date) :
          /\ ClaimType(j) = "manual"
          /\ DateLess(priceCall.result.price_date, material_prices[j].price_date)

(***************************************************************************)
(* Claims about _clean_material_name.                                      *)
(***************************************************************************)

\* C9: cleaning a cleaned name returns it unchanged:
\* _clean_material_name(_clean_material_name(s)) = _clean_material_name(s).
C9_Idempotent ==
    cleanCall.calls >= 2 => cleanCall.result = cleanCall.arg

(***************************************************************************)
(* Claims about _match_material.                                           *)
(***************************************************************************)

\* The normalized raw name of the recorded call.
ClaimCleanName == _clean_material_name(matchCall.name)

\* Active materials whose canonical name and unit are exactly (n, u).
ClaimExact(n, u) ==
    { m \in DOMAIN materials :
        /\ materials[m].active = 1
        /\ materials[m].name_canonical = n
        /\ materials[m].unit = u }

\* Alias rows with text n that point at an active material.
ClaimAliases(n) ==
    { i \in DOMAIN material_aliases :
        /\ material_aliases[i].alias_name = n
        /\ material_aliases[i].material_id \in DOMAIN materials
        /\ materials[material_aliases[i].material_id].active = 1 }

MatchedByAlias == "alias_name" \in DOMAIN matchCall.result

\* The call has a unit, an exact (name, unit) material for the normalized
\* name, and an alias of that text pointing at another active material.
ExactAndAliasCall ==
    /\ matchCall.called
    /\ matchCall.unit # NoUnit
    /\ ClaimExact(ClaimCleanName, matchCall.unit) # {}
    /\ \E i \in ClaimAliases(ClaimCleanName) :
          /\ material_aliases[i].material_id \notin ClaimExact(ClaimCleanName, matchCall.unit)
          /\ \/ material_aliases[i].customer_id = NoCustomer
             \/ material_aliases[i].customer_id = matchCall.customer_id

\* C6: with a unit given, an exact (name, unit) material and an alias of the
\* same text pointing at a different active material, _match_material
\* returns the exact material.
C6_ExactFirst ==
    ExactAndAliasCall =>
       /\ matchCall.result.id \in ClaimExact(ClaimCleanName, matchCall.unit)
       /\ ~MatchedByAlias

C6_Witness ==
    /\ ExactAndAliasCall
    /\ matchCall.name # ClaimCleanName
    /\ matchCall.result.id \in ClaimExact(ClaimCleanName, matchCall.unit)

\* The call is made for customer B, the text has an alias scoped to another
\* customer, and neither a global alias nor one scoped to B.
ForeignAliasCall ==
    /\ matchCall.called
    /\ matchCall.name # <<>>
    /\ matchCall.customer_id # NoCustomer
    /\ \E i \in ClaimAliases(ClaimCleanName) :
          material_aliases[i].customer_id \notin {NoCustomer, matchCall.customer_id}
    /\ \A i \in DOMAIN material_aliases :
          material_aliases[i].alias_name = ClaimCleanName =>
             material_aliases[i].customer_id \notin {NoCustomer, matchCall.customer_id}

\* C7: an alias scoped to customer A does not satisfy a lookup of customer B
\* when the text has no global alias and no alias of B: the alias path
\* yields no match.
C7_AliasScoping ==
    ForeignAliasCall =>
       /\ ~MatchedByAlias
       /\ \/ matchCall.result = NoMaterial
          \/ /\ matchCall.unit # NoUnit
             /\ matchCall.result.id \in ClaimExact(ClaimCleanName, matchCall.unit)

C7_Witness ==
    /\ ForeignAliasCall
    /\ matchCall.unit = NoUnit
    /\ matchCall.result = NoMaterial

\* C8: a lookup with no customer is satisfied through the alias path only by
\* a global alias.
C8_NoCustomerGlobalOnly ==
    (/\ matchCall.called
     /\ matchCall.customer_id = NoCustomer
     /\ MatchedByAlias)
    => \E i \in DOMAIN material_aliases :
          /\ material_aliases[i].alias_name = matchCall.result.alias_name
          /\ material_aliases[i].material_id = matchCall.result.id
          /\ material_aliases[i].customer_id = NoCustomer

\* C10: (a) a global alias stored with text t for an active material is
\* found by _match_material(t) with no unit; (b) a row whose raw name and
\* unit are an active material's canonical name and unit resolves to that
\* material.
C10_RoundTrip ==
    /\ (/\ matchCall.called
        /\ matchCall.unit = NoUnit
        /\ \E i \in ClaimAliases(matchCall.name) :
              material_aliases[i].customer_id = NoCustomer)
       => matchCall.result # NoMaterial
    /\ (/\ matchCall.called
        /\ matchCall.unit # NoUnit
        /\ ClaimExact(matchCall.name, matchCall.unit) # {})
       => matchCall.result.id \in ClaimExact(matchCall.name, matchCall.unit)

(***************************************************************************)
(* Import sessions and unmatched imports (database_manager.py), and the    *)
(* file import (price_importer.py).  A cell of the data frame is a record: *)
(* NaN, a text, or a value float() accepts.                                *)
(***************************************************************************)
NaN == [kind |-> "nan"]
Text(s) == [kind |-> "text", v |-> s]
Num(x) == [kind |-> "num", v |-> x]

\* Session ids the import_sessions table hands out; the model follows as
\* many calls of import_from_file.
SessionIds == {1, 2}

\* Column defaults of import_sessions that create_import_session leaves to
\* the schema: status 'pending', both counters 0.
DefaultSessionStatus == "pending"

\* create_import_session: the row INSERT INTO import_sessions adds.
NewSessionRow(source_file, customer_id) ==
    [source_file |-> source_file, customer_id |-> customer_id,
     status |-> DefaultSessionStatus, processed_rows |-> 0, error_rows |-> 0]

\* Mutant: the status is written only when no counter is given.
update_import_session_StatusOrCounts(sessions, session_id, status, counts) ==
    [k \in DOMAIN sessions |->
        IF k # session_id THEN sessions[k]
        ELSE [source_file |-> sessions[k].source_file,
              customer_id |-> sessions[k].customer_id,
              status |-> IF DOMAIN counts = {} THEN status ELSE sessions[k].status,
              processed_rows |-> IF "processed_rows" \in DOMAIN counts
                                 THEN counts.processed_rows
                                 ELSE sessions[k].processed_rows,
              error_rows |-> IF "error_rows" \in DOMAIN counts
                             THEN counts.error_rows
                             ELSE sessions[k].error_rows]]

\* update_import_session: the table after the UPDATE.  counts holds the
\* counters that are not None; the status is always written.
update_import_session(sessions, session_id, status, counts) ==
    [k \in DOMAIN sessions |->
        IF k # session_id THEN sessions[k]
        ELSE [source_file |-> sessions[k].source_file,
              customer_id |-> sessions[k].customer_id,
              status |-> status,
              processed_rows |-> IF "processed_rows" \in DOMAIN counts
                                 THEN counts.processed_rows
                                 ELSE sessions[k].processed_rows,
              error_rows |-> IF "error_rows" \in DOMAIN counts
                             THEN counts.error_rows
                             ELSE sessions[k].error_rows]]

\* add_unmatched_import: the row INSERT INTO unmatched_imports adds.
NewUnmatchedRow(session_id, raw_name, raw_price, raw_unit, raw_article) ==
    [import_session_id |-> session_id, raw_name |-> raw_name,
     raw_price |-> raw_price, raw_unit |-> raw_unit, raw_article |-> raw_article]

\* The price column of material_prices does not take NULL: the INSERT of
\* add_material_price raises IntegrityError for price None.
PriceNotNull(price) == price # NoPrice

\* row[column_mapping[column_name]].
CellOf(row, columns, column_mapping, column_name) ==
    row[CHOOSE k \in 1..Len(columns) : columns[k] = column_mapping[column_name]]

\* safe_get on the name column: str(value).strip(), None for NaN or for an
\* unmapped column.  None and '' are both written <<>>: the only use of the
\* name before the match is the test `not material_data['name']`.
safe_get_name(row, columns, column_mapping) ==
    IF "name" \in DOMAIN column_mapping
    THEN LET value == CellOf(row, columns, column_mapping, "name")
         IN IF value.kind # "nan" THEN Strip(value.v) ELSE <<>>
    ELSE <<>>

\* safe_get on the unit or article column (their texts are atoms without
\* surrounding blanks, which strip() returns as they are).
safe_get_atom(row, columns, column_mapping, column_name, none) ==
    IF column_name \in DOMAIN column_mapping
    THEN LET value == CellOf(row, columns, column_mapping, column_name)
         IN IF value.kind # "nan" THEN value.v ELSE none
    ELSE none

\* Mutant: an unparseable price becomes 0.0.
safe_get_numeric_ZeroOnError(row, columns, column_mapping) ==
    IF "price" \in DOMAIN column_mapping
    THEN LET value == CellOf(row, columns, column_mapping, "price")
         IN IF value.kind = "num" THEN value.v
            ELSE IF value.kind = "text" THEN 0 ELSE NoPrice
    ELSE NoPrice

\* safe_get_numeric: float(value); ValueError and NaN give None.
safe_get_numeric(row, columns, column_mapping) ==
    IF "price" \in DOMAIN column_mapping
    THEN LET value == CellOf(row, columns, column_mapping, "price")
         IN IF value.kind = "num" THEN value.v ELSE NoPrice
    ELSE NoPrice

_extract_material_data(row, columns, column_mapping) ==
    [name |-> safe_get_name(row, columns, column_mapping),
     price |-> safe_get_numeric(row, columns, column_mapping),
     unit |-> safe_get_atom(row, columns, column_mapping, "unit", NoUnit),
     article |-> safe_get_atom(row, columns, column_mapping, "article", NoArticle)]

\* Mutant: an import reuses the price source that already has its name.
add_price_source_row_GetOrCreate(sources, type_, name) ==
    IF \E k \in DOMAIN sources : sources[k].type = type_ /\ sources[k].name = name
    THEN [table |-> sources,
          id |-> CHOOSE k \in DOMAIN sources :
                    sources[k].type = type_ /\ sources[k].name = name]
    ELSE [table |-> Append(sources, [type |-> type_, name |-> name]),
          id |-> Len(sources) + 1]

\* add_price_source as the import calls it: always a new row, whose id is
\* returned.
add_price_source_row(sources, type_, name) ==
    [table |-> Append(sources, [type |-> type_, name |-> name]),
     id |-> Len(sources) + 1]

\* _add_alias_if_not_exists: looks the alias up and, found or not, inserts
\* nothing (the branch for a missing alias is `pass`).
_add_alias_if_not_exists(aliases, material_id, alias, customer_id) ==
    LET existing == find_material_by_alias(alias, customer_id)
    IN IF existing = {} THEN aliases ELSE aliases

\* The except clause of the row loop: the row is counted as an error and
\* the loop goes on.
CatchRow(st, idx) ==
    [st EXCEPT !.errors = @ + 1, !.raised = @ \cup {idx}]

\* An exception in the row: caught by the except clause of the loop, or
\* (were it not caught) leaving _process_dataframe.
RowRaises(st, idx, caught) ==
    IF caught THEN CatchRow(st, idx)
    ELSE [st EXCEPT !.aborted = TRUE, !.raised = @ \cup {idx}]

\* What the store does to the calls of one row: nothing, or it raises (as
\* SQLite does on a locked database) on the row's INSERT, or on the SELECT
\* of the alias lookup that follows a stored price.
StoreFaults == {"none", "insert", "alias_lookup"}

\* Lines 98-115: the matched branch.  The price is stored and counted; then,
\* for a raw name other than the canonical one, the alias is looked up.
PricedRow(st, idx, data, matched, run, fault, today, caught) ==
    IF ~PriceNotNull(data.price) \/ fault = "insert"
    THEN RowRaises(st, idx, caught)
    ELSE LET priced == [st EXCEPT
                          !.prices = Append(@, NewPriceRow(matched.id, data.price,
                                                           today, run.source_id)),
                          !.processed = @ + 1]
         IN IF data.name # matched.name_canonical
            THEN IF fault = "alias_lookup"
                 THEN RowRaises(priced, idx, caught)
                 ELSE [priced EXCEPT
                         !.aliases = _add_alias_if_not_exists(@, matched.id, data.name,
                                                              run.customer_id)]
            ELSE priced

\* Lines 116-126: the unmatched branch; listed says that the row is also
\* appended to the returned list.
UnmatchedRow(st, idx, data, run, fault, listed, caught) ==
    IF fault = "insert"
    THEN RowRaises(st, idx, caught)
    ELSE [st EXCEPT
            !.unmatched_imports =
                Append(@, NewUnmatchedRow(run.session_id, data.name, data.price,
                                          data.unit, data.article)),
            !.unmatched = IF listed THEN Append(@, data) ELSE @,
            !.errors = @ + 1]

\* The call of _match_material at line 91, counted.
Resolved(st) == [st EXCEPT !.queries = @ + 1]

\* Mutant: the exception of a row leaves the loop.
process_row_NoCatch(st, idx, data, matched, run, fault, today) ==
    IF data.name = <<>> THEN [st EXCEPT !.errors = @ + 1]
    ELSE IF matched # NoMaterial
         THEN PricedRow(Resolved(st), idx, data, matched, run, fault, today, FALSE)
         ELSE UnmatchedRow(Resolved(st), idx, data, run, fault, TRUE, FALSE)

\* Mutant: an unmatched row is stored but not added to the returned list.
process_row_NoUnmatchedList(st, idx, data, matched, run, fault, today) ==
    IF data.name = <<>> THEN [st EXCEPT !.errors = @ + 1]
    ELSE IF matched # NoMaterial
         THEN PricedRow(Resolved(st), idx, data, matched, run, fault, today, TRUE)
         ELSE UnmatchedRow(Resolved(st), idx, data, run, fault, FALSE, TRUE)

\* Mutant: the test for an empty name is missing, the row goes to the
\* resolver like any other.
process_row_NoEmptyCheck(st, idx, data, matched, run, fault, today) ==
    IF matched # NoMaterial
    THEN PricedRow(Resolved(st), idx, data, matched, run, fault, today, TRUE)
    ELSE UnmatchedRow(Resolved(st), idx, data, run, fault, TRUE, TRUE)

\* The body of the row loop of _process_dataframe for the extracted data and
\* the resolver's answer.  st holds the tables the row may write and the
\* counters, run the call's source, session and customer.  A row without a
\* name is counted as an error before the resolver is called.
process_row(st, idx, data, matched, run, fault, today) ==
    IF data.name = <<>> THEN [st EXCEPT !.errors = @ + 1]
    ELSE IF matched # NoMaterial
         THEN PricedRow(Resolved(st), idx, data, matched, run, fault, today, TRUE)
         ELSE UnmatchedRow(Resolved(st), idx, data, run, fault, TRUE, TRUE)

\* What a finished call leaves in the log of the calls.
LogEntry(i, outcome) ==
    [source_file |-> i.source_file, customer_id |-> i.customer_id,
     rows |-> i.rows, session_id |-> i.session_id, source_id |-> i.source_id,
     outcome |-> outcome, processed |-> i.processed, errors |-> i.errors,
     unmatched |-> i.unmatched, raised |-> i.raised]

\* Lines 50-65: the session is updated to 'completed' with the counters and
\* the summary is returned.
ReturnSummary(i, sessions) ==
    [imp |-> [i EXCEPT !.pc = "done", !.outcome = "returned",
                       !.log = Append(@, LogEntry(i, "returned"))],
     sessions |-> update_import_session(sessions, i.session_id, "completed",
                     [processed_rows |-> i.processed, error_rows |-> i.errors])]

\* Lines 67-69: the session is updated to 'failed' and the exception is
\* raised again.
FailAndRaise(i, sessions) ==
    [imp |-> [i EXCEPT !.pc = "done", !.outcome = "raised",
                       !.log = Append(@, LogEntry(i, "raised"))],
     sessions |-> update_import_session(sessions, i.session_id, "failed", <<>>)]

\* After a row (or after the set-up, for a file without rows): go on with
\* the next row, or leave the loop and return.
NextRowOrReturn(i, sessions) ==
    IF i.idx > Len(i.rows) THEN ReturnSummary(i, sessions)
    ELSE [imp |-> i, sessions |-> sessions]

\* The header row of the files: Material | Ed. izm | Tsena.
FileColumns ==
    << <<"M", "a", "t", "e", "r", "i", "a", "l">>,
       <<"E", "d", ".", " ", "i", "z", "m">>,
       <<"Ts", "e", "n", "a">> >>

\* Data rows: the canonical name of the material; the same name capitalised
\* and padded; a price float() rejects; an empty cell for the name; a blank
\* name; an unknown name.
FileRows ==
    { <<Text(<<"s">>), Text("kg"), Num(100)>>,
      <<Text(<<" ", "S">>), Text("kg"), Num(110)>>,
      <<Text(<<"s">>), Text("kg"), Text(<<"a", "b", "c">>)>>,
      <<NaN, Text("kg"), Num(100)>>,
      <<Text(<<" ">>), Text("kg"), Num(100)>>,
      <<Text(<<"x">>), NaN, Num(90)>> }

RECURSIVE RowsOf(_)
RowsOf(n) ==
    IF n = 0 THEN {<<>>}
    ELSE LET shorter == RowsOf(n - 1)
         IN shorter \cup { Append(t, r) : t \in shorter, r \in FileRows }

\* The files an import is given: one that does not exist, one that pandas
\* cannot read, and the readable ones.
Files ==
    { [path |-> "missing.csv", exists |-> FALSE, readable |-> FALSE,
       columns |-> <<>>, rows |-> <<>>],
      [path |-> "broken.xlsx", exists |-> TRUE, readable |-> FALSE,
       columns |-> <<>>, rows |-> <<>>] }
    \cup { [path |-> "prices.csv", exists |-> TRUE, readable |-> TRUE,
            columns |-> FileColumns, rows |-> t] : t \in RowsOf(MaxRows) }

\* import_from_file up to the row loop: the existence test, the session, the
\* read, the price source, the column detection; all of it and the return
\* for a file without rows.
ImportBegin(file, customer_id) ==
    /\ imp.pc # "rows"
    /\ Len(imp.log) + 1 \in SessionIds
    /\ Len(import_sessions) + 1 \in SessionIds
    /\ Len(price_sources) + 1 \in SourceIds
    /\ customer_id \in {NoCustomer} \cup DOMAIN customers
    /\ LET start == [NoImport EXCEPT !.source_file = file.path,
                                     !.customer_id = customer_id,
                                     !.log = imp.log]
       IN IF ~file.exists
          THEN /\ imp' = [start EXCEPT !.pc = "done", !.outcome = "raised",
                                       !.log = Append(@, LogEntry(start, "raised"))]
               /\ UNCHANGED <<import_sessions, price_sources>>
          ELSE LET created == Append(import_sessions,
                                     NewSessionRow(file.path, customer_id))
                   session_id == Len(created)
               IN IF ~file.readable
                  THEN LET end == FailAndRaise([start EXCEPT !.session_id = session_id],
                                               created)
                       IN /\ imp' = end.imp
                          /\ import_sessions' = end.sessions
                          /\ UNCHANGED price_sources
                  ELSE LET source == add_price_source_row(price_sources, "invoice",
                                        "Import from " \o file.path)
                           end == NextRowOrReturn(
                                     [start EXCEPT
                                        !.session_id = session_id,
                                        !.source_id = source.id,
                                        !.columns = file.columns,
                                        !.rows = file.rows,
                                        !.column_mapping = _detect_columns(file.columns),
                                        !.idx = 1,
                                        !.pc = "rows"],
                                     created)
                       IN /\ imp' = end.imp
                          /\ import_sessions' = end.sessions
                          /\ price_sources' = source.table
    /\ UNCHANGED <<materials, customers, material_prices, material_aliases,
                   unmatched_imports, priceCall, matchCall, cleanCall, detectCall,
                   vendors, scrape>>

\* One pass of the row loop, and the return after the last row.
ImportRow(fault, today) ==
    /\ imp.pc = "rows"
    /\ imp.idx <= Len(imp.rows)
    /\ LET data == _extract_material_data(imp.rows[imp.idx], imp.columns,
                                          imp.column_mapping)
       IN \E matched \in _match_material(data.name, data.unit, data.article,
                                         imp.customer_id) :
             LET st == process_row(
                          [prices |-> material_prices,
                           unmatched_imports |-> unmatched_imports,
                           aliases |-> material_aliases,
                           processed |-> imp.processed, errors |-> imp.errors,
                           unmatched |-> imp.unmatched, raised |-> imp.raised,
                           queries |-> imp.queries, aborted |-> FALSE],
                          imp.idx, data, matched, imp, fault, today)
                 after == [imp EXCEPT !.processed = st.processed,
                                      !.queries = st.queries,
                                      !.errors = st.errors,
                                      !.unmatched = st.unmatched,
                                      !.raised = st.raised,
                                      !.idx = @ + 1]
                 end == IF st.aborted THEN FailAndRaise(after, import_sessions)
                        ELSE NextRowOrReturn(after, import_sessions)
             IN /\ imp' = end.imp
                /\ import_sessions' = end.sessions
                /\ material_prices' = st.prices
                /\ unmatched_imports' = st.unmatched_imports
                /\ material_aliases' = st.aliases
    /\ UNCHANGED <<materials, customers, price_sources,
                   priceCall, matchCall, cleanCall, detectCall, vendors, scrape>>

\* The catalog is filled before the first import; a second import is the
\* first one again: the same file, the same customer.
BeforeImports == imp.pc = "idle"

NextImport ==
    \/ BeforeImports /\ add_material("m1", <<"s">>, "kg")
    \/ BeforeImports /\ add_customer("invoice")
    \/ BeforeImports /\ \E file \in Files, c \in {NoCustomer} \cup CustomerIds :
          ImportBegin(file, c)
    \/ \E fault \in StoreFaults, today \in Todays : ImportRow(fault, today)
    \/ imp.pc = "done" /\ \E file \in Files :
          /\ file.path = imp.source_file
          /\ file.rows = imp.rows
          /\ ImportBegin(file, imp.customer_id)

SpecImport == Init /\ [][NextImport]_vars

(***************************************************************************)
(* The price scraper (web_price_scraper.py).  A request is answered by an  *)
(* exception, or by a response of which the model keeps the status code    *)
(* and the price _parse_price reads off the page (None: no price element,  *)
(* or a text without a number).                                            *)
(***************************************************************************)

\* Vendor ids the vendors table hands out.
VendorIds == {1, 2}

\* add_vendor: INSERT INTO vendors.
add_vendor(name, website_url) ==
    /\ Len(vendors) + 1 \in VendorIds
    /\ vendors' = Append(vendors, [name |-> name, website_url |-> website_url])
    /\ UNCHANGED <<store, priceCall, matchCall, cleanCall,
                   import_sessions, unmatched_imports, imp, detectCall, scrape>>

\* self.config.get('max_retries', 3) and self.config.get('rate_limit', 1.0).
DefaultMaxRetries == 3
DefaultRateLimit == 1

ConfigGet(config, key, default) ==
    IF key \in DOMAIN config THEN config[key] ELSE default

\* time.sleep(2 ** attempt).
RECURSIVE Backoff(_)
Backoff(attempt) == IF attempt = 0 THEN 1 ELSE 2 * Backoff(attempt - 1)

\* The end of the for loop: after the last attempt the method returns None.
AfterAttempt(c) ==
    IF c.attempt >= ConfigGet(c.config, "max_retries", DefaultMaxRetries)
    THEN [c EXCEPT !.pc = "done", !.result = NoPrice]
    ELSE c

\* Mutant: an attempt that raised is not counted, it is made again.
scrape_attempt_RetryForever(c, response) ==
    IF response.kind = "raise"
    THEN [c EXCEPT !.requests = @ + 1,
                   !.log = Append(@, [attempt |-> c.attempt, raised |-> TRUE,
                                      slept |-> Backoff(c.attempt)])]
    ELSE IF response.status_code = 200 /\ response.price # NoPrice /\ response.price # 0
    THEN [c EXCEPT !.requests = @ + 1, !.pc = "done", !.result = response.price,
                   !.log = Append(@, [attempt |-> c.attempt, raised |-> FALSE,
                                      slept |-> 0])]
    ELSE AfterAttempt([c EXCEPT
            !.requests = @ + 1, !.attempt = @ + 1,
            !.log = Append(@, [attempt |-> c.attempt, raised |-> FALSE,
                               slept |-> ConfigGet(c.config, "rate_limit",
                                                   DefaultRateLimit)])])

\* One pass of the for loop of VendorScraper._scrape_material_price: the
\* request; a truthy price of a 200 response is returned; otherwise the
\* method sleeps rate_limit seconds, or 2 ** attempt seconds after an
\* exception, and goes on with the next attempt.
scrape_attempt(c, response) ==
    IF response.kind = "raise"
    THEN AfterAttempt([c EXCEPT
            !.requests = @ + 1, !.attempt = @ + 1,
            !.log = Append(@, [attempt |-> c.attempt, raised |-> TRUE,
                               slept |-> Backoff(c.attempt)])])
    ELSE IF response.status_code = 200 /\ response.price # NoPrice /\ response.price # 0
    THEN [c EXCEPT !.requests = @ + 1, !.pc = "done", !.result = response.price,
                   !.log = Append(@, [attempt |-> c.attempt, raised |-> FALSE,
                                      slept |-> 0])]
    ELSE AfterAttempt([c EXCEPT
            !.requests = @ + 1, !.attempt = @ + 1,
            !.log = Append(@, [attempt |-> c.attempt, raised |-> FALSE,
                               slept |-> ConfigGet(c.config, "rate_limit",
                                                   DefaultRateLimit)])])

\* Vendor configurations: with and without max_retries and rate_limit.
Configs ==
    { [price_selector |-> ".product-price"],
      [price_selector |-> ".product-price", rate_limit |-> 2] }
    \cup { [price_selector |-> ".product-price", max_retries |-> n] :
              n \in 0..MaxConfigRetries }

\* What a request may meet.
Responses ==
    { [kind |-> "raise"],
      [kind |-> "response", status_code |-> 200, price |-> 120],
      [kind |-> "response", status_code |-> 200, price |-> 0],
      [kind |-> "response", status_code |-> 200, price |-> NoPrice],
      [kind |-> "response", status_code |-> 404, price |-> NoPrice] }

\* VendorScraper._scrape_material_price is called: the URL is built, the
\* for loop is entered (and left at once for max_retries = 0).
ScrapeBegin(config) ==
    /\ scrape.pc = "idle"
    /\ scrape' = AfterAttempt([scrape EXCEPT !.pc = "attempt", !.config = config])
    /\ UNCHANGED <<store, priceCall, matchCall, cleanCall,
                   import_sessions, unmatched_imports, imp, detectCall, vendors>>

ScrapeAttempt(response) ==
    /\ scrape.pc = "attempt"
    /\ scrape' = scrape_attempt(scrape, response)
    /\ UNCHANGED <<store, priceCall, matchCall, cleanCall,
                   import_sessions, unmatched_imports, imp, detectCall, vendors>>

\* _get_materials_by_ids and _get_materials_by_vendor: placeholders, both
\* return the empty list whatever they are asked for.
_get_materials_by_ids(material_ids) == <<>>
_get_materials_by_vendor(vendor_id) == <<>>

\* What _scrape_material_price does for one material of the batch: it
\* returns a price, returns 0.0 or None, or raises (a configuration without
\* search_url_pattern raises KeyError before the retry loop).
ScrapeResults ==
    { [kind |-> "price", price |-> 120], [kind |-> "price", price |-> 0],
      [kind |-> "price", price |-> NoPrice], [kind |-> "raise"] }

\* Lines 85-101: one pass of the loop over the materials.  A truthy price
\* is stored (the INSERT raises for a material the catalog does not hold,
\* foreign keys being on); a falsy one and an exception are counted as
\* failed, with a message.
scrape_material(acc, material_id, result, today) ==
    IF result.kind = "price" /\ result.price # NoPrice /\ result.price # 0
          /\ material_id \in DOMAIN materials
    THEN [acc EXCEPT
            !.prices = Append(@, [NewPriceRow(material_id, result.price, today,
                                              acc.results.source_id)
                                     EXCEPT !.id = Len(acc.prices) + 1]),
            !.results.successful = @ + 1]
    ELSE IF result.kind = "price" /\ (result.price = NoPrice \/ result.price = 0)
    THEN [acc EXCEPT !.results.failed = @ + 1,
                     !.results.errors = Append(@, <<"No price found for", material_id>>)]
    ELSE [acc EXCEPT !.results.failed = @ + 1,
                     !.results.errors = Append(@, <<"Error scraping", material_id>>)]

\* Lines 84-104: the loop.
RECURSIVE ScrapeMaterials(_, _, _, _, _)
ScrapeMaterials(found, results, k, acc, today) ==
    IF k > Len(found) THEN acc
    ELSE ScrapeMaterials(found, results, k + 1,
                         scrape_material(acc, found[k], results[k], today), today)

\* Lines 48-53: the vendor is looked up; a missing vendor and one without
\* website_url raise ValueError.
VendorFound(vendor_id) ==
    /\ vendor_id \in DOMAIN vendors
    /\ vendors[vendor_id].website_url \notin {NULL, ""}

\* Lines 61-106, for the materials found: the 'website' price source, the
\* results record, the loop, the return.
ScrapeFound(vendor_id, found, results, today) ==
    LET source == add_price_source_row(price_sources, "website",
                                       <<"Web scrape from", vendors[vendor_id].name, today>>)
        start == [prices |-> material_prices,
                  results |-> [outcome |-> "returned", source_id |-> source.id,
                               vendor_id |-> vendor_id, total_materials |-> Len(found),
                               successful |-> 0, failed |-> 0, errors |-> <<>>]]
        end == ScrapeMaterials(found, results, 1, start, today)
    IN /\ source.id \in SourceIds
       /\ Len(material_prices) + Len(found) <= MaxPrices
       /\ price_sources' = source.table
       /\ material_prices' = end.prices
       /\ scrape' = [scrape EXCEPT !.batch = end.results]

\* scrape_vendor_prices, the whole call.
ScrapeVendorPrices(vendor_id, material_ids, today) ==
    /\ scrape.batch.outcome = "none"
    /\ IF VendorFound(vendor_id)
       THEN LET found == IF material_ids # <<>>
                         THEN _get_materials_by_ids(material_ids)
                         ELSE _get_materials_by_vendor(vendor_id)
            IN ScrapeFound(vendor_id, found, <<>>, today)
       ELSE /\ scrape' = [scrape EXCEPT !.batch = [NoBatch EXCEPT !.outcome = "raised",
                                                              !.vendor_id = vendor_id]]
            /\ UNCHANGED <<price_sources, material_prices>>
    /\ UNCHANGED <<materials, customers, material_aliases, priceCall, matchCall, cleanCall,
                   import_sessions, unmatched_imports, imp, detectCall, vendors>>

\* Lines 61-106 applied to a list of materials, as a materials query that
\* is more than a placeholder would hand it to the loop.
ScrapeMaterialList(vendor_id, found, results, today) ==
    /\ scrape.batch.outcome = "none"
    /\ VendorFound(vendor_id)
    /\ found # <<>>
    /\ ScrapeFound(vendor_id, found, results, today)
    /\ UNCHANGED <<materials, customers, material_aliases, priceCall, matchCall, cleanCall,
                   import_sessions, unmatched_imports, imp, detectCall, vendors>>

\* Lists of at most MaxScraped materials, and as many results.
MaterialLists == UNION { [1..n -> {"m1", "m2"}] : n \in 0..MaxScraped }
ResultLists(n) == [1..n -> ScrapeResults]

VendorUrls == {"https://vendor-a.example.com", NULL}

NextScrape ==
    \/ \E url \in VendorUrls : add_vendor("Vendor A", url)
    \/ scrape.batch.outcome = "none" /\ add_material("m1", <<"s">>, "kg")
    \/ \E config \in Configs : ScrapeBegin(config)
    \/ \E response \in Responses : ScrapeAttempt(response)
    \/ \E v \in VendorIds \cup {3}, ids \in MaterialLists, today \in Todays :
          ScrapeVendorPrices(v, ids, today)
    \/ \E v \in VendorIds, found \in MaterialLists, today \in Todays :
          \E results \in ResultLists(Len(found)) :
             ScrapeMaterialList(v, found, results, today)

SpecScrape == Init /\ [][NextScrape]_vars

(***************************************************************************)
(* SpecHistory: every operation that writes or reads material_prices, in   *)
(* any order: price additions, migrations (of a material that is new and   *)
(* of one that has prices already), imports, scrapes and price selections. *)
(***************************************************************************)

\* price_history entries of materials_catalog.json, with and without the
\* source fields.
HistoryEntries ==
    { [price |-> 95, price_date |-> <<2024, 1, 1>>,
       source_type |-> NULL, source_name |-> NULL],
      [price |-> 105, price_date |-> <<2024, 2, 1>>,
       source_type |-> "invoice", source_name |-> "Invoice 7"] }

\* price_history lists: empty, one entry, two different entries.
HistoryLists ==
    { h \in {<<>>} \cup { <<e>> : e \in HistoryEntries }
                   \cup { <<e, f>> : e \in HistoryEntries, f \in HistoryEntries } :
        Len(h) < 2 \/ h[1] # h[2] }

\* materials_catalog.json: the material m1 and its price history.
HistoryCatalogs ==
    { << [id |-> "m1", name |-> <<"s">>, unit |-> "kg", active |-> 1,
          price_history |-> h, aliases |-> <<>>] >> : h \in HistoryLists }

\* The files imported: at most MaxRows rows of the material, with a price
\* float() takes or rejects.
HistoryFiles ==
    { f \in Files :
        /\ f.readable
        /\ \A k \in DOMAIN f.rows :
              f.rows[k] \in { <<Text(<<"s">>), Text("kg"), Num(100)>>,
                              <<Text(<<"s">>), Text("kg"), Text(<<"a", "b", "c">>)>> } }

NextHistory ==
    \/ add_material("m1", <<"s">>, "kg")
    \/ add_price_source("manual", "Manual entry")
    \/ \E o \in { x \in Observations : x.price = 110 } :
          add_material_price("m1", o.price, o.price_date, 1)
    \/ \E json_data \in HistoryCatalogs : migrate_from_json(json_data)
    \/ \E today \in Todays : GetCurrentPrice("m1", NoDate, NoCustomer, today)
    \/ BeforeImports /\ \E file \in HistoryFiles : ImportBegin(file, NoCustomer)
    \/ \E today \in Todays : ImportRow("none", today)
    \/ vendors = <<>> /\ add_vendor("Vendor A", "https://vendor-a.example.com")
    \/ \E today \in Todays : ScrapeVendorPrices(1, <<"m1">>, today)
    \/ \E results \in ResultLists(1), today \in Todays :
          ScrapeMaterialList(1, <<"m1">>, results, today)

SpecHistory == Init /\ [][NextHistory]_vars

(***************************************************************************)
(* Claims about _detect_columns.                                           *)
(***************************************************************************)

\* Positions of the headers that the loop body takes for field f.
ClaimColumnsOf(f) ==
    { k \in 1..Len(detectCall.columns) : FieldOf(detectCall.columns[k]) = f }

\* C11: every column is assigned to at most one field, and a field stays
\* mapped to the first column whose header matches it.
C11_FirstColumnKept ==
    detectCall.called =>
       /\ \A f, g \in DOMAIN detectCall.mapping :
             f # g => detectCall.mapping[f] # detectCall.mapping[g]
       /\ \A f \in {"name", "price", "unit", "article"} :
             ClaimColumnsOf(f) # {} =>
                /\ f \in DOMAIN detectCall.mapping
                /\ detectCall.mapping[f] =
                      detectCall.columns[CHOOSE k \in ClaimColumnsOf(f) :
                                            \A j \in ClaimColumnsOf(f) : k <= j]

\* The header row Material | Edinitsa izmereniya | Tsena materiala, za edinitsu.
ClaimExampleHeader ==
    << <<"M", "a", "t", "e", "r", "i", "a", "l">>,
       <<"E", "d", "i", "n", "i", "ts", "a", " ",
         "i", "z", "m", "e", "r", "e", "n", "i", "ya">>,
       <<"Ts", "e", "n", "a", " ", "m", "a", "t", "e", "r", "i", "a", "l", "a", ",", " ",
         "z", "a", " ", "e", "d", "i", "n", "i", "ts", "u">> >>

\* C12: that header row maps to name -> column 1, unit -> column 2,
\* price -> column 3, and to no article.
C12_ExampleMapping ==
    (detectCall.called /\ detectCall.columns = ClaimExampleHeader) =>
       /\ DOMAIN detectCall.mapping = {"name", "unit", "price"}
       /\ detectCall.mapping["name"] = ClaimExampleHeader[1]
       /\ detectCall.mapping["unit"] = ClaimExampleHeader[2]
       /\ detectCall.mapping["price"] = ClaimExampleHeader[3]

(***************************************************************************)
(* Claims about import_from_file.                                          *)
(***************************************************************************)

\* The rows of the running (or last) call that the loop has been through.
ClaimDoneRows == 1..(IF imp.pc = "idle" THEN 0 ELSE imp.idx - 1)

\* The name of row k as the file gives it, stripped; <<>> for an empty cell.
ClaimRawName(k) ==
    IF imp.rows[k][1].kind = "nan" THEN <<>> ELSE Strip(imp.rows[k][1].v)

ClaimRawUnit(k) ==
    IF imp.rows[k][2].kind = "nan" THEN NoUnit ELSE imp.rows[k][2].v

\* The price of row k, None when the cell holds no number.
ClaimRawPrice(k) ==
    IF imp.rows[k][3].kind = "num" THEN imp.rows[k][3].v ELSE NoPrice

\* The price cell of row k is there and float() rejects it.
ClaimInvalidPrice(k) == imp.rows[k][3].kind = "text"

\* The materials the resolver may answer for row k.
ClaimResolved(k) ==
    _match_material(ClaimRawName(k), ClaimRawUnit(k), NoArticle, imp.customer_id)

ClaimMatches(k) == ClaimRawName(k) # <<>> /\ ClaimResolved(k) # {NoMaterial}
ClaimNoMatch(k) == ClaimRawName(k) # <<>> /\ ClaimResolved(k) = {NoMaterial}

\* The price rows of the call: those of its price source.
ClaimPricesOf(source_id) ==
    { p \in DOMAIN material_prices : material_prices[p].source_id = source_id }

\* The unmatched_imports rows of a session.
ClaimUnmatchedOf(session_id) ==
    { u \in DOMAIN unmatched_imports :
         unmatched_imports[u].import_session_id = session_id }

\* The call got as far as the row loop.
ClaimInLoop == imp.pc # "idle" /\ imp.source_id # 0

\* C13: a row that raises is caught and counted as an error, the later rows
\* are processed, and the call returns with the session completed.
C13_RowFailureIsolated ==
    (ClaimInLoop /\ imp.raised # {}) =>
       /\ imp.outcome # "raised"
       /\ import_sessions[imp.session_id].status # "failed"
       /\ imp.errors >= Cardinality(imp.raised)
       /\ imp.processed + imp.errors >= imp.idx - 1
       /\ imp.pc = "done" =>
             /\ imp.outcome = "returned"
             /\ imp.idx = Len(imp.rows) + 1
             /\ import_sessions[imp.session_id].status = "completed"

C13_Witness ==
    /\ imp.pc = "done"
    /\ imp.outcome = "returned"
    /\ 1 \in imp.raised
    /\ Len(imp.rows) = 2
    /\ imp.processed = 1
    /\ import_sessions[imp.session_id].status = "completed"

\* Every row resolves, exactly one has an invalid price, and no other row
\* raised.
ClaimOneInvalidPrice ==
    /\ imp.pc = "done"
    /\ imp.source_id # 0
    /\ Len(imp.rows) >= 1
    /\ \A k \in 1..Len(imp.rows) : ClaimMatches(k)
    /\ Cardinality({ k \in 1..Len(imp.rows) : ClaimInvalidPrice(k) }) = 1
    /\ \A k \in imp.raised : ClaimInvalidPrice(k)

\* C14: N rows that all resolve, one of them with an invalid price: N - 1
\* processed, 1 error, and no price row for the invalid one.
C14_OneInvalidPrice ==
    ClaimOneInvalidPrice =>
       /\ imp.outcome = "returned"
       /\ imp.processed = Len(imp.rows) - 1
       /\ imp.errors = 1
       /\ Cardinality(ClaimPricesOf(imp.source_id)) = Len(imp.rows) - 1
       /\ \A p \in ClaimPricesOf(imp.source_id) : material_prices[p].price \in {100, 110}

C14_Witness ==
    /\ ClaimOneInvalidPrice
    /\ Len(imp.rows) = 2
    /\ ClaimInvalidPrice(1)
    /\ imp.processed = 1
    /\ imp.errors = 1

\* C15: when import_from_file raises, the run has an import session and its
\* status is failed.
C15_RaisedHasFailedSession ==
    (imp.pc = "done" /\ imp.outcome = "raised") =>
       /\ imp.session_id \in DOMAIN import_sessions
       /\ import_sessions[imp.session_id].status = "failed"

\* A session that is completed or failed keeps its row in every step.
ClaimTerminalKept ==
    \A k \in DOMAIN import_sessions :
       import_sessions[k].status \in {"completed", "failed"} =>
          /\ k \in DOMAIN import_sessions'
          /\ import_sessions'[k] = import_sessions[k]

\* The sessions in a state: pending while their call is in the row loop,
\* completed with the returned counters after a return, failed after a raise.
ClaimSessionStates ==
    /\ \A k \in DOMAIN import_sessions :
          /\ import_sessions[k].status \in {"pending", "completed", "failed"}
          /\ import_sessions[k].status = "pending" <=>
                (imp.pc = "rows" /\ imp.session_id = k)
    /\ (imp.pc = "done" /\ imp.outcome = "returned") =>
          /\ import_sessions[imp.session_id].status = "completed"
          /\ import_sessions[imp.session_id].processed_rows = imp.processed
          /\ import_sessions[imp.session_id].error_rows = imp.errors
    /\ (imp.pc = "done" /\ imp.outcome = "raised" /\ imp.session_id # 0) =>
          import_sessions[imp.session_id].status = "failed"

\* C16: a session starts pending, its status is written once, to completed
\* or failed, and never changes afterwards; after a normal return it is
\* completed with the returned processed and error counts.
C16_SessionLifecycle ==
    /\ []ClaimSessionStates
    /\ [][ClaimTerminalKept]_vars

C16_Witness ==
    /\ Len(import_sessions) = 2
    /\ import_sessions[1].status = "completed"
    /\ import_sessions[1].processed_rows = 1
    /\ import_sessions[1].error_rows = 1
    /\ import_sessions[2].status = "pending"

\* C17: once a row that matches material M under a raw name other than M's
\* canonical name has been processed, an alias with that name points at M,
\* scoped to the customer of the import if there is one.
C17_AliasRegistered ==
    \A k \in ClaimDoneRows :
       (/\ ClaimInLoop
        /\ k \notin imp.raised
        /\ ClaimMatches(k)
        /\ \A m \in ClaimResolved(k) : m.name_canonical # ClaimRawName(k))
       => \E a \in DOMAIN material_aliases :
             /\ material_aliases[a].alias_name = ClaimRawName(k)
             /\ material_aliases[a].material_id \in { m.id : m \in ClaimResolved(k) }
             /\ material_aliases[a].customer_id = imp.customer_id

\* Both calls returned, for the same file and customer, and the store
\* failed in neither: the rows that raised are those with an invalid price.
ClaimReimported ==
    /\ Len(imp.log) = 2
    /\ imp.log[1].outcome = "returned"
    /\ imp.log[2].outcome = "returned"
    /\ imp.log[1].source_file = imp.log[2].source_file
    /\ imp.log[1].rows = imp.log[2].rows
    /\ imp.log[1].customer_id = imp.log[2].customer_id
    /\ \A n \in {1, 2} : \A k \in imp.log[n].raised :
          imp.log[n].rows[k][3].kind = "text"

\* The (material, price) pairs of a source's price rows, in row order.
ClaimPriceList(source_id) ==
    LET F[n \in 0..Len(material_prices)] ==
           IF n = 0 THEN <<>>
           ELSE IF material_prices[n].source_id = source_id
                THEN Append(F[n - 1], <<material_prices[n].material_id,
                                        material_prices[n].price>>)
                ELSE F[n - 1]
    IN F[Len(material_prices)]

\* C18, in a state: two price sources, and the matched rows' prices once
\* under each.
ClaimTwoSourcesTwoSets ==
    ClaimReimported =>
       /\ imp.log[1].source_id # imp.log[2].source_id
       /\ {imp.log[1].source_id, imp.log[2].source_id} \subseteq DOMAIN price_sources
       /\ ClaimPriceList(imp.log[1].source_id) = ClaimPriceList(imp.log[2].source_id)
       /\ Len(ClaimPriceList(imp.log[1].source_id)) = imp.log[1].processed
       /\ Len(ClaimPriceList(imp.log[2].source_id)) = imp.log[2].processed
       /\ Len(material_prices) = imp.log[1].processed + imp.log[2].processed

\* C18, in a step: an import leaves the materials and the aliases as they are.
ClaimCatalogKept ==
    imp' # imp => (materials' = materials /\ material_aliases' = material_aliases)

\* C18: importing a file twice gives two price sources and the matched
\* rows' prices twice, and the materials and the aliases are the same after
\* the second import as after the first.
C18_Reimport ==
    /\ []ClaimTwoSourcesTwoSets
    /\ [][ClaimCatalogKept]_vars

C18_Witness ==
    /\ ClaimReimported
    /\ imp.log[1].processed = 2
    /\ Len(material_prices) = 4
    /\ Len(price_sources) = 2

\* The unmatched rows the loop has been through without an exception.
ClaimUnmatchedRows == { k \in ClaimDoneRows : ClaimNoMatch(k) /\ k \notin imp.raised }

\* C19: every unmatched row with a name has exactly one unmatched_imports
\* record of the session, with its raw fields, and is in the returned list;
\* the list is as long as the session has records; such rows get no price.
C19_UnmatchedRecorded ==
    ClaimInLoop =>
       /\ Cardinality(ClaimUnmatchedOf(imp.session_id)) = Len(imp.unmatched)
       /\ Len(imp.unmatched) = Cardinality(ClaimUnmatchedRows)
       /\ \A k \in ClaimUnmatchedRows :
             /\ Cardinality({ u \in ClaimUnmatchedOf(imp.session_id) :
                   /\ unmatched_imports[u].raw_name = ClaimRawName(k)
                   /\ unmatched_imports[u].raw_unit = ClaimRawUnit(k)
                   /\ unmatched_imports[u].raw_price = ClaimRawPrice(k)
                   /\ unmatched_imports[u].raw_article = NoArticle })
                = Cardinality({ j \in ClaimUnmatchedRows : imp.rows[j] = imp.rows[k] })
             /\ \E j \in 1..Len(imp.unmatched) : imp.unmatched[j].name = ClaimRawName(k)
       /\ Cardinality(ClaimPricesOf(imp.source_id)) = imp.processed
       /\ \A p \in ClaimPricesOf(imp.source_id) :
             \E k \in ClaimDoneRows :
                /\ ClaimMatches(k)
                /\ material_prices[p].material_id \in { m.id : m \in ClaimResolved(k) }

C19_Witness ==
    /\ imp.pc = "done"
    /\ imp.outcome = "returned"
    /\ Len(imp.unmatched) = 2
    /\ Cardinality(ClaimUnmatchedOf(imp.session_id)) = 2
    /\ imp.processed = 0
    /\ materials # <<>>

\* C20: a row that resolves to no match is not counted as an error: errors
\* counts the rows with an empty name and the rows that raised.
C20_MissIsNotError ==
    ClaimInLoop =>
       imp.errors = Cardinality({ k \in ClaimDoneRows : ClaimRawName(k) = <<>> })
                    + Cardinality(imp.raised)

\* The step of the row loop over a row without a name: one more error, and
\* nothing else moves.
ClaimEmptyNameStep ==
    (/\ imp.pc = "rows"
     /\ imp.idx <= Len(imp.rows)
     /\ ClaimRawName(imp.idx) = <<>>
     /\ imp' # imp)
    => /\ imp'.idx = imp.idx + 1
       /\ imp'.errors = imp.errors + 1
       /\ imp'.processed = imp.processed
       /\ imp'.unmatched = imp.unmatched
       /\ imp'.raised = imp.raised
       /\ imp'.queries = imp.queries
       /\ unmatched_imports' = unmatched_imports
       /\ material_prices' = material_prices
       /\ material_aliases' = material_aliases

\* C21: a row with an empty or missing name adds one to errors and nothing
\* to processed, gets no unmatched_imports record, no entry in the returned
\* list and no price, and the resolver is not called for it.
C21_EmptyNameSkipped == [][ClaimEmptyNameStep]_vars

C21_Witness ==
    /\ imp.pc = "done"
    /\ imp.outcome = "returned"
    /\ Len(imp.rows) = 2
    /\ ClaimRawName(1) = <<>>
    /\ imp.rows[2][1].kind = "nan"
    /\ imp.errors = 2
    /\ imp.processed = 0
    /\ imp.queries = 0
    /\ materials # <<>>
    /\ unmatched_imports = <<>>
    /\ material_prices = <<>>

\* C23: when the loop has finished, processed + errors is the number of
\* data rows.
C23_EveryRowCountedOnce ==
    (imp.pc = "done" /\ imp.outcome = "returned") =>
       imp.processed + imp.errors = Len(imp.rows)

(***************************************************************************)
(* Claims about the scraper.                                               *)
(***************************************************************************)

ClaimMaxRetries ==
    IF "max_retries" \in DOMAIN scrape.config
    THEN scrape.config["max_retries"] ELSE DefaultMaxRetries

\* The requests made so far: no more than max_retries, each one logged, and
\* 2^attempt seconds slept after each one that raised.
ClaimRequestsBounded ==
    /\ scrape.requests <= ClaimMaxRetries
    /\ Len(scrape.log) = scrape.requests
    /\ \A k \in DOMAIN scrape.log :
          /\ scrape.log[k].attempt = k - 1
          /\ scrape.log[k].raised => scrape.log[k].slept = 2 ^ (k - 1)
    /\ scrape.pc = "attempt" => scrape.requests < ClaimMaxRetries

\* The call has returned: a price that a request brought, or None after
\* max_retries requests.
ClaimScrapeReturned ==
    scrape.pc = "done" =>
       \/ /\ scrape.result = NoPrice
          /\ scrape.requests = ClaimMaxRetries
       \/ /\ scrape.result > 0
          /\ scrape.requests >= 1
          /\ ~scrape.log[scrape.requests].raised

\* The batch has returned: every material is counted once, as successful
\* (its price is stored under the batch's source) or as failed (with a
\* message).
ClaimBatchCounted ==
    scrape.batch.outcome = "returned" =>
       /\ scrape.batch.successful + scrape.batch.failed = scrape.batch.total_materials
       /\ Len(scrape.batch.errors) = scrape.batch.failed
       /\ Cardinality({ p \in DOMAIN material_prices :
                           material_prices[p].source_id = scrape.batch.source_id })
             = scrape.batch.successful

\* A request is one step towards the bound; a batch raises for a vendor
\* that is missing or has no website only, never for a material.
ClaimScrapeStep ==
    /\ (scrape.pc = "attempt" /\ scrape'.batch = scrape.batch /\ scrape' # scrape)
          => scrape'.requests = scrape.requests + 1
    /\ (scrape.batch.outcome = "none" /\ scrape'.batch.outcome = "raised")
          => \/ scrape'.batch.vendor_id \notin DOMAIN vendors
             \/ vendors[scrape'.batch.vendor_id].website_url = NULL

\* C24: _scrape_material_price makes at most max_retries requests and then
\* returns a price or None, sleeping 2^attempt seconds after an attempt that
\* raised; scrape_vendor_prices counts an exception or a missing price of a
\* material as failed and goes on, and successful + failed is
\* total_materials when it returns.
C24_BoundedRetriesPerItem ==
    /\ [](ClaimRequestsBounded /\ ClaimScrapeReturned /\ ClaimBatchCounted)
    /\ [][ClaimScrapeStep]_vars

C24_Witness ==
    /\ scrape.pc = "done"
    /\ scrape.result = NoPrice
    /\ "max_retries" \notin DOMAIN scrape.config
    /\ scrape.requests = DefaultMaxRetries
    /\ \A k \in DOMAIN scrape.log : scrape.log[k].raised
    /\ scrape.log[DefaultMaxRetries].slept = 4
    /\ scrape.batch.outcome = "returned"
    /\ scrape.batch.total_materials = 2
    /\ scrape.batch.successful = 1
    /\ scrape.batch.errors = << <<"Error scraping", "m2">> >>
    /\ Len(material_prices) = 1

(***************************************************************************)
(* Claims about the price history.                                         *)
(***************************************************************************)

\* The observation with the id of row p is in the table after the step, and
\* says what it said.
ClaimObservationKept(p) ==
    \E q \in DOMAIN material_prices' :
       /\ material_prices'[q].id = material_prices[p].id
       /\ material_prices'[q].material_id = material_prices[p].material_id
       /\ material_prices'[q].price = material_prices[p].price
       /\ material_prices'[q].price_date = material_prices[p].price_date
       /\ material_prices'[q].source_id = material_prices[p].source_id

\* C22: whatever the operation (import, scrape, migration, price addition,
\* price selection), every price observation that was there before it is
\* there after it, with the same material, price, price_date and source.
C22_AppendOnly ==
    [][\A p \in DOMAIN material_prices : ClaimObservationKept(p)]_vars

\* A price migrated, the same catalog migrated again over the material that
\* has the price, a price imported, a price selected.
C22_Witness ==
    /\ Len(material_prices) = 3
    /\ Len(price_sources) = 2
    /\ price_sources[1].type = "manual"
    /\ material_prices[1].price = 95 /\ material_prices[1].source_id = 1
    /\ material_prices[2].price = 95 /\ material_prices[2].source_id = 1
    /\ price_sources[2].type = "invoice"
    /\ material_prices[3].price = 100 /\ material_prices[3].source_id = 2
    /\ imp.pc = "done" /\ imp.outcome = "returned"
    /\ priceCall.called

====
